---------------------------- MODULE Spec2Model ----------------------------
(***************************************************************************)
(* Model of family_trash_bot_postgres.py: the two PostgreSQL tables        *)
(* (families, members), the per-user conversation state                    *)
(* (context.user_data) and the three update handlers (start,               *)
(* callback_router, text_flow).  Each handler invocation is one action:    *)
(* python-telegram-bot's Application processes one update to completion    *)
(* before the next (concurrent_updates is left at its default).            *)
(*                                                                         *)
(* The tables outlive the process and user_data does not: a run starts     *)
(* from a database earlier runs have filled (Seeds) with every user in no  *)
(* flow, and handles up to MaxUpdates updates.                             *)
(*                                                                         *)
(* The file stores many of its string quotes with a backslash before them  *)
(* (\" for "); the model reads each as the quote it stands for.            *)
(***************************************************************************)
EXTENDS Integers, Sequences, FiniteSets, TLC

(***************************************************************************)
(* Bounds of the model.                                                    *)
(***************************************************************************)
NUsers == 2      \* telegram ids 1..NUsers
MaxFid == 2      \* values the families.id sequence may hand out
MaxMid == 4      \* values the members.id sequence may hand out
MaxCount == 2    \* counters are driven up to this value
MaxUpdates == 4  \* updates handled in one run
MaxActors == 1   \* users who send updates in one run
MaxStmts == 6    \* statements run in one statement-level run
MaxFlowSteps == 6 \* updates handled in one run of the conversation flows

Users == 1..NUsers
Fids == 1..MaxFid

VARIABLES
    families,    \* rows of table families: [id, name, password_hash]
    members,     \* rows of table members: [id, family_id, telegram_id, username, count, is_admin]
    nextFid,     \* next value of sequence families_id_seq
    nextMid,     \* next value of sequence members_id_seq
    user_data,   \* context.user_data of each user: a dict, key -> value
    ev,          \* the update handled last and the handler's outcome
    updates,     \* number of updates handled in this run
    actors,      \* the users who have sent an update in this run
    inflight,    \* per user: the handler that is between two of its statements
    expect,      \* per member id: the row's first count plus the increments
                 \* accepted for it since (an observer's tally, never read)
    latest       \* per user: what the user's last entry into a flow captured
                 \* (an observer's record, never read)

vars ==
    <<families, members, nextFid, nextMid, user_data, ev, updates, actors,
      inflight, expect, latest>>
store == <<families, members>>

(***************************************************************************)
(* Values.  A text is a sequence of characters.  SQL NULL / Python None    *)
(* in an optional column is the empty set, a present value v is {v}.       *)
(***************************************************************************)
NULL == {}
Some(v) == {v}

Digits == <<"0", "1", "2", "3", "4", "5", "6", "7", "8", "9">>
IsDigit(c) == \E i \in 1..10 : Digits[i] = c
DigitVal(c) == (CHOOSE i \in 1..10 : Digits[i] = c) - 1

DELETE == <<"D", "E", "L", "E", "T", "E">>

\* The raw message texts the users send, by the prompt they answer: family
\* names, passwords (a blank message stands for "no password"), counts and
\* deletion confirmations.
NameTexts == { <<"A">>, <<"B">> }
PassTexts == { <<" ">>, <<"A">>, <<"B">> }
CountTexts == { <<"1">>, <<" ", "2">>, <<"7">>, <<"-", "1">>, <<"A">> }
ConfirmTexts == { DELETE, <<" ">> \o DELETE, <<"A">> }
OtherTexts == { <<"A">> }

\* str.strip(): drop leading and trailing blanks.
RECURSIVE LStrip(_)
LStrip(s) == IF s # <<>> /\ Head(s) = " " THEN LStrip(Tail(s)) ELSE s
RECURSIVE RStrip(_)
RStrip(s) == IF s # <<>> /\ s[Len(s)] = " " THEN RStrip(SubSeq(s, 1, Len(s) - 1)) ELSE s
Strip(s) == RStrip(LStrip(s))

\* int(text) on a stripped text: an optional sign and decimal digits;
\* anything else raises ValueError.
IsIntText(s) ==
    LET body == IF s # <<>> /\ Head(s) \in {"-", "+"} THEN Tail(s) ELSE s
    IN  body # <<>> /\ \A i \in 1..Len(body) : IsDigit(body[i])
RECURSIVE DigitsVal(_, _)
DigitsVal(s, acc) == IF s = <<>> THEN acc ELSE DigitsVal(Tail(s), 10 * acc + DigitVal(Head(s)))
ParseInt(s) ==
    IF Head(s) = "-" THEN 0 - DigitsVal(Tail(s), 0)
    ELSE IF Head(s) = "+" THEN DigitsVal(Tail(s), 0)
    ELSE DigitsVal(s, 0)

\* hash_password(pw) for a text pw: the digest of the salted text.  The
\* digest is modelled collision-free, as the salted preimage itself.
Salt == <<"s", "a", "l", "t", "_", "v", "1", "_">>
hash_password(pw) == Salt \o pw
\* create_family: ph = hash_password(pw) if pw else None, where text_flow
\* passes pw = text if text != "" else None
PasswordHashOf(text) == IF text # <<>> THEN Some(hash_password(text)) ELSE NULL

\* user.username or user.first_name: the label stored with a member row.
Labels == << <<"b", "o", "b">>, <<"a", "l">>, <<"b", "o">>, <<"a", "l", "i">> >>
Username(u) == Labels[u]

(***************************************************************************)
(* context.user_data: a Python dict.                                       *)
(***************************************************************************)
EmptyDict == <<>>
Has(d, k) == k \in DOMAIN d
\* (mutant) dict.setdefault in place of assignment
PutIfAbsent(d, k, v) == [x \in (DOMAIN d) \cup {k} |-> IF x \in DOMAIN d THEN d[x] ELSE v]
Put(d, k, v) == [x \in (DOMAIN d) \cup {k} |-> IF x = k THEN v ELSE d[x]]
Pop(d, ks) == [x \in (DOMAIN d) \ ks |-> d[x]]
\* user_data.get("flow"): the flow tag, "none" when the key is absent.
Flow(d) == IF Has(d, "flow") THEN d["flow"] ELSE "none"


(***************************************************************************)
(* The update handled last by a branch that writes the store or           *)
(* user_data, or whose outcome depends on the store: which branch ran, for *)
(* whom, with which token arguments or text, and how it ended.             *)
(*   fid, tid : the integers of the callback token (0 when it has none)    *)
(*   text     : the stripped message text                                  *)
(*   flow     : the flow tag text_flow read                                *)
(*   fault    : the store statement of text_flow that raised (0: none);    *)
(*              for trash_out, 1 when an exception left notify_least        *)
(*   fam      : id of the row get_member_family returned (0: no row)       *)
(*   old      : what the write's target held before the update: the count  *)
(*              of the target member row (-1: no such row); for admin_reset *)
(*              and the deletion, the number of member rows of the family   *)
(*              (-1: no such family); for trash_out, the caller's count in  *)
(*              family fam                                                  *)
(*   notify   : telegram id the reminder was addressed to (0: none)        *)
(*   delivered: whether the reminder was delivered                         *)
(*   rows     : the rows get_family_stats returned to the stats branch     *)
(*   reply    : the reply sent; "fault" when the handler raised            *)
(***************************************************************************)
E0(op, u) ==
    [op |-> op, u |-> u, fid |-> 0, tid |-> 0, text |-> <<>>, flow |-> "none",
     fault |-> 0, fam |-> 0, old |-> 0 - 1, notify |-> 0, delivered |-> FALSE,
     rows |-> <<>>, reply |-> ""]

(***************************************************************************)
(* Store statements.  The connection is in autocommit mode: every          *)
(* statement is a transaction of its own.                                  *)
(***************************************************************************)
\* SELECT * FROM families WHERE name=$1 (name is UNIQUE: at most one row)
get_family_by_name(name) == {f \in families : f.name = name}

\* SELECT f.* FROM families f JOIN members m ON m.family_id = f.id
\* WHERE m.telegram_id = $1 : fetchrow returns any one of these rows
FamiliesOf(tid) ==
    {f \in families : \E m \in members : m.family_id = f.id /\ m.telegram_id = tid}
NoFam == [id |-> 0, name |-> <<>>, password_hash |-> NULL]
\* (mutant) the family taken from the stored families, not from the caller's rows
get_member_family_any(tid) == IF families = {} THEN {NoFam} ELSE families
get_member_family(tid) == IF FamiliesOf(tid) = {} THEN {NoFam} ELSE FamiliesOf(tid)

\* SELECT is_admin FROM members WHERE family_id=$1 AND telegram_id=$2
MemberRow(fid, tid) == {m \in members : m.family_id = fid /\ m.telegram_id = tid}
\* (mutant) the admin branch without the is_admin test
is_member_admin_anyone(fid, tid) == TRUE
is_member_admin(fid, tid) == \E m \in MemberRow(fid, tid) : m.is_admin

\* (mutant) families.name without UNIQUE
FamilyNameNeverTaken(name) == FALSE

\* INSERT INTO families (name, password_hash): name is UNIQUE
FamilyNameTaken(name) == \E f \in families : f.name = name
NewFamily(name, ph) == [id |-> nextFid, name |-> name, password_hash |-> ph]

\* A new members row; count and is_admin take the column defaults unless given.
NewMember(fid, tid, admin) ==
    [id |-> nextMid, family_id |-> fid, telegram_id |-> tid, username |-> Username(tid),
     count |-> 0, is_admin |-> admin]

\* (mutant) the INSERT without its ON CONFLICT clause and unique index
InsertMemberAlways(fid, tid) == members \cup {NewMember(fid, tid, FALSE)}

\* INSERT INTO members ... ON CONFLICT (family_id, telegram_id) DO NOTHING
InsertMemberOnConflictDoNothing(fid, tid) ==
    IF MemberRow(fid, tid) # {} THEN members
    ELSE members \cup {NewMember(fid, tid, FALSE)}

\* (mutant) join_family without its password check
PasswordNotChecked(fam, pw) == TRUE

\* the password check of join_family
PasswordOk(fam, pw) ==
    ~(fam.password_hash # NULL /\ fam.password_hash # Some(hash_password(pw)))

\* (mutant) the UPDATE without its WHERE clause
add_trash_everyone(tid) == {[m EXCEPT !.count = m.count + 1] : m \in members}

\* (mutant) the new count computed from the count the handler saw at its
\* first statement, not by the UPDATE itself
add_trash_from_seen(tid) ==
    {IF m.telegram_id = tid THEN [m EXCEPT !.count = inflight[tid].seen + 1] ELSE m
        : m \in members}

\* UPDATE members SET count = count + 1 WHERE telegram_id = $1
add_trash(tid) ==
    {IF m.telegram_id = tid THEN [m EXCEPT !.count = m.count + 1] ELSE m : m \in members}

\* GREATEST(0, count + $1)
Greatest(a, b) == IF a >= b THEN a ELSE b
\* (mutant) count + $1 without GREATEST
AdjustedCountNoFloor(c, delta) == c + delta
AdjustedCount(c, delta) == Greatest(0, c + delta)
\* UPDATE members SET count = GREATEST(0, count + $1) WHERE family_id=$2 AND telegram_id=$3
adjust_count(fid, tid, delta) ==
    {IF m.family_id = fid /\ m.telegram_id = tid
       THEN [m EXCEPT !.count = AdjustedCount(m.count, delta)] ELSE m : m \in members}

\* UPDATE members SET count=$1 WHERE family_id=$2 AND telegram_id=$3
set_member_count(tid, fid, newv) ==
    {IF m.family_id = fid /\ m.telegram_id = tid
       THEN [m EXCEPT !.count = newv] ELSE m : m \in members}

\* DELETE FROM members WHERE family_id=$1 AND telegram_id=$2
remove_member(tid, fid) == members \ MemberRow(fid, tid)

\* UPDATE members SET is_admin = NOT is_admin WHERE family_id=$1 AND telegram_id=$2
toggle_admin(fid, tid) ==
    {IF m.family_id = fid /\ m.telegram_id = tid
       THEN [m EXCEPT !.is_admin = ~m.is_admin] ELSE m : m \in members}

\* (mutant) UPDATE members SET count=0 without its WHERE clause
reset_counts_everywhere(fid) == {[m EXCEPT !.count = 0] : m \in members}

\* UPDATE members SET count=0 WHERE family_id=$1
reset_counts(fid) ==
    {IF m.family_id = fid THEN [m EXCEPT !.count = 0] ELSE m : m \in members}

\* DELETE FROM families WHERE id=$1, and what the foreign key
\* members.family_id REFERENCES families(id) ON DELETE CASCADE removes with it
delete_family_rows(fid) == {f \in families : f.id # fid}
\* (mutant) the foreign key without ON DELETE CASCADE
NoCascade(fid) == members
Cascade(fid) == {m \in members : m.family_id # fid}

\* (mutant) ORDER BY count ASC, id DESC LIMIT 1
get_least_member_latest(mems, fid) ==
    {m \in mems : /\ m.family_id = fid
                  /\ \A o \in mems : o.family_id = fid =>
                        (m.count < o.count \/ (m.count = o.count /\ m.id >= o.id))}

\* SELECT ... FROM members WHERE family_id=$1 ORDER BY count ASC, id ASC LIMIT 1
get_least_member(mems, fid) ==
    {m \in mems : /\ m.family_id = fid
                  /\ \A o \in mems : o.family_id = fid =>
                        (m.count < o.count \/ (m.count = o.count /\ m.id <= o.id))}

\* Text comparison of usernames (lower-case letters, on which the
\* collations agree): lexicographic by letter, a proper prefix first.
Alphabet ==
    <<"a", "b", "c", "d", "e", "f", "g", "h", "i", "j", "k", "l", "m",
      "n", "o", "p", "q", "r", "s", "t", "u", "v", "w", "x", "y", "z">>
CharRank(c) == CHOOSE i \in 1..Len(Alphabet) : Alphabet[i] = c
RECURSIVE TextLeq(_, _)
TextLeq(s, t) ==
    IF s = <<>> THEN TRUE
    ELSE IF t = <<>> THEN FALSE
    ELSE IF Head(s) = Head(t) THEN TextLeq(Tail(s), Tail(t))
    ELSE CharRank(Head(s)) < CharRank(Head(t))

\* (mutant) ORDER BY count ASC, username
StatsBeforeAscending(a, b) ==
    a.count < b.count \/ (a.count = b.count /\ TextLeq(a.username, b.username))
\* ORDER BY count DESC, username: row a may come before row b
StatsBefore(a, b) ==
    a.count > b.count \/ (a.count = b.count /\ TextLeq(a.username, b.username))
\* SELECT id, telegram_id, username, count, is_admin FROM members
\* WHERE family_id=$1 ORDER BY count DESC, username : the row lists fetch may
\* return (one list, unless two rows agree in count and username)
StatsRow(m) ==
    [id |-> m.id, telegram_id |-> m.telegram_id, username |-> m.username,
     count |-> m.count, is_admin |-> m.is_admin]
get_family_stats(fid) ==
    LET S == {StatsRow(m) : m \in {x \in members : x.family_id = fid}}
    IN  {r \in [1..Cardinality(S) -> S] :
            \A i, j \in 1..Cardinality(S) : i < j => r[i] # r[j] /\ StatsBefore(r[i], r[j])}

\* The count of member row (fid, tid); -1 when there is no such row.
CountOf(fid, tid) ==
    IF MemberRow(fid, tid) = {} THEN 0 - 1
    ELSE (CHOOSE m \in MemberRow(fid, tid) : TRUE).count
\* The number of member rows of family fid; -1 when there is no such family.
SizeOf(fid) ==
    IF \A f \in families : f.id # fid THEN 0 - 1
    ELSE Cardinality({m \in members : m.family_id = fid})

\* Counters are driven no higher than MaxCount.
CountsBelowMax(rows) == \A m \in rows : m.count < MaxCount

(***************************************************************************)
(* Initial states.  on_startup runs init_db (CREATE TABLE IF NOT EXISTS)   *)
(* on a database that keeps the rows of earlier runs, and user_data starts *)
(* empty.  Each seed is the database a short earlier run leaves behind:    *)
(*   SeedEmpty : a fresh database                                          *)
(*   SeedOne   : user 1 created "A" with password "B"                      *)
(*   SeedPair  : as SeedOne; then user 2 joined "A" and pressed trash_out  *)
(*               once                                                      *)
(*   SeedTwo   : user 1 created "A" without a password; user 2 created "B" *)
(*               with password "A"; user 1 joined "B"                      *)
(***************************************************************************)
Fam(id, name, pwtext) == [id |-> id, name |-> name, password_hash |-> PasswordHashOf(pwtext)]
Mem(id, fid, tid, count, admin) ==
    [id |-> id, family_id |-> fid, telegram_id |-> tid, username |-> Username(tid),
     count |-> count, is_admin |-> admin]

SeedEmpty == [families |-> {}, members |-> {}, nextFid |-> 1, nextMid |-> 1]
SeedOne ==
    [families |-> {Fam(1, <<"A">>, <<"B">>)},
     members |-> {Mem(1, 1, 1, 0, TRUE)},
     nextFid |-> 2, nextMid |-> 2]
SeedPair ==
    [families |-> {Fam(1, <<"A">>, <<"B">>)},
     members |-> {Mem(1, 1, 1, 0, TRUE), Mem(2, 1, 2, 1, FALSE)},
     nextFid |-> 2, nextMid |-> 3]
SeedTwo ==
    [families |-> {Fam(1, <<"A">>, <<>>), Fam(2, <<"B">>, <<"A">>)},
     members |-> {Mem(1, 1, 1, 0, TRUE), Mem(2, 2, 2, 0, TRUE), Mem(3, 2, 1, 0, FALSE)},
     nextFid |-> 3, nextMid |-> 4]
Seeds == {SeedEmpty, SeedOne, SeedPair, SeedTwo}

\* No handler of the user is under way; the user has entered no flow yet.
Idle == [pc |-> "idle", fam |-> 0, seen |-> 0]
NoEntry == [flow |-> "none", fid |-> 0, tid |-> 0, name |-> <<>>]

Init ==
    /\ \E seed \in Seeds :
          /\ families = seed.families
          /\ members = seed.members
          /\ nextFid = seed.nextFid
          /\ nextMid = seed.nextMid
          /\ expect = [i \in 1..MaxMid |->
                          IF \E m \in seed.members : m.id = i
                            THEN (CHOOSE m \in seed.members : m.id = i).count
                            ELSE 0]
    /\ user_data = [u \in Users |-> EmptyDict]
    /\ ev = E0("init", 0)
    /\ updates = 0
    /\ actors = {}
    /\ inflight = [u \in Users |-> Idle]
    /\ latest = [u \in Users |-> NoEntry]

StoreUnchanged == UNCHANGED <<families, members, nextFid, nextMid>>

\* A handler that raised: python-telegram-bot logs the exception; nothing
\* the handler had not yet done is done.
Raised(e, k) == [e EXCEPT !.fault = k, !.reply = "fault"]

(***************************************************************************)
(* start                                                                   *)
(***************************************************************************)
\* start reads the caller's family and replies with a menu; replies are not
\* part of the state.
Start(u) == updates < MaxUpdates /\ UNCHANGED vars

(***************************************************************************)
(* callback_router, one definition per branch of its if-chain.  A token is *)
(* the action name with the integers that follow it: "admin_inc|1|2" is    *)
(* op admin_inc, fid 1, tid 2.  Store faults are modelled in text_flow,    *)
(* whose handling of them differs by branch; here every statement          *)
(* succeeds.                                                               *)
(***************************************************************************)
CbCreateFamily(u) ==
    /\ user_data' = [user_data EXCEPT ![u] = Put(@, "flow", "create_name")]
    /\ ev' = [E0("create_family", u) EXCEPT !.reply = "prompt_name"]
    /\ StoreUnchanged

CbJoinFamily(u) ==
    /\ user_data' = [user_data EXCEPT ![u] = Put(@, "flow", "join_name")]
    /\ ev' = [E0("join_family", u) EXCEPT !.reply = "prompt_name"]
    /\ StoreUnchanged

\* notify_least(pool, family_id, context) on the members table mems:
\* the reminder's addressee (0: no row, nothing sent).
NotifyTarget(mems, fid) ==
    IF get_least_member(mems, fid) = {} THEN 0
    ELSE (CHOOSE m \in get_least_member(mems, fid) : TRUE).telegram_id

\* (mutant) notify_least without try/except around send_message
notify_least_unguarded(mems, fid, sent) ==
    [to |-> NotifyTarget(mems, fid),
     delivered |-> NotifyTarget(mems, fid) # 0 /\ sent,
     raised |-> NotifyTarget(mems, fid) # 0 /\ ~sent]

\* notify_least: no row, no message; otherwise send_message to the row's
\* telegram_id inside try/except, a failure being logged.  raised: whether
\* an exception leaves notify_least.
notify_least(mems, fid, sent) ==
    [to |-> NotifyTarget(mems, fid),
     delivered |-> NotifyTarget(mems, fid) # 0 /\ sent,
     raised |-> FALSE]

\* trash_out and trash_out|fid (fid 0: the token has no payload).
\* sent: whether bot.send_message delivered the reminder.
CbTrashOut(u, fid, sent) ==
    LET e == [E0("trash_out", u) EXCEPT !.fid = fid] IN
    /\ UNCHANGED <<families, nextFid, nextMid, user_data>>
    /\ \E fam \in get_member_family(u) :
         IF fam.id = 0
           THEN /\ sent
                /\ ev' = [e EXCEPT !.reply = "not_in_family"]
                /\ UNCHANGED members
           ELSE /\ CountsBelowMax({m \in members : m.telegram_id = u})
                /\ members' = add_trash(u)
                /\ LET n == notify_least(add_trash(u), fam.id, sent) IN
                   ev' = [e EXCEPT !.fam = fam.id, !.reply = "trash_ok",
                                   !.old = CountOf(fam.id, u),
                                   !.notify = n.to,
                                   !.delivered = n.delivered,
                                   !.fault = IF n.raised THEN 1 ELSE 0]

CbStats(u) ==
    /\ StoreUnchanged
    /\ UNCHANGED user_data
    /\ \E fam \in get_member_family(u) :
         IF fam.id = 0
           THEN ev' = [E0("stats", u) EXCEPT !.reply = "not_in_family"]
           ELSE \E rows \in get_family_stats(fam.id) :
                   ev' = [E0("stats", u) EXCEPT !.fam = fam.id, !.rows = rows,
                                                !.reply = "stats"]

CbAdmin(u, fid) ==
    /\ StoreUnchanged
    /\ UNCHANGED user_data
    /\ \E fam \in get_member_family(u) :
         ev' = [E0("admin", u) EXCEPT !.fid = fid, !.fam = fam.id,
                    !.reply = IF fam.id = 0 \/ fam.id # fid THEN "no_access"
                              ELSE IF ~is_member_admin(fid, u) THEN "admin_only"
                              ELSE "panel"]

\* admin_list|fid and admin_member|fid|tid read and reply with keyboards.
CbAdminList(u, fid) == updates < MaxUpdates /\ UNCHANGED vars

CbAdminMember(u, fid, tid) == updates < MaxUpdates /\ UNCHANGED vars

\* admin_inc|fid|tid and admin_dec|fid|tid
CbAdminIncDec(u, op, fid, tid) ==
    LET delta == IF op = "admin_inc" THEN 1 ELSE 0 - 1 IN
    /\ UNCHANGED <<families, nextFid, nextMid, user_data>>
    /\ delta = 1 => CountsBelowMax(MemberRow(fid, tid))
    /\ members' = adjust_count(fid, tid, delta)
    /\ ev' = [E0(op, u) EXCEPT !.fid = fid, !.tid = tid, !.old = CountOf(fid, tid),
                               !.reply = "changed"]

CbAdminSet(u, fid, tid) ==
    /\ user_data' = [user_data EXCEPT ![u] =
            Put(Put(Put(@, "flow", "admin_set_count"), "admin_set_fid", fid),
                "admin_set_target", tid)]
    /\ ev' = [E0("admin_set", u) EXCEPT !.fid = fid, !.tid = tid, !.reply = "prompt_count"]
    /\ StoreUnchanged

CbAdminRemove(u, fid, tid) ==
    /\ UNCHANGED <<families, nextFid, nextMid, user_data>>
    /\ members' = remove_member(tid, fid)
    /\ ev' = [E0("admin_remove", u) EXCEPT !.fid = fid, !.tid = tid,
                                           !.old = CountOf(fid, tid), !.reply = "removed"]

CbAdminToggleAdmin(u, fid, tid) ==
    /\ UNCHANGED <<families, nextFid, nextMid, user_data>>
    /\ members' = IF MemberRow(fid, tid) # {} THEN toggle_admin(fid, tid) ELSE members
    /\ ev' = [E0("admin_toggle_admin", u) EXCEPT !.fid = fid, !.tid = tid,
                                                 !.old = CountOf(fid, tid),
                                                 !.reply = "rights_changed"]

CbAdminReset(u, fid) ==
    /\ UNCHANGED <<families, nextFid, nextMid, user_data>>
    /\ members' = reset_counts(fid)
    /\ ev' = [E0("admin_reset", u) EXCEPT !.fid = fid, !.old = SizeOf(fid), !.reply = "reset"]

CbAdminDelete(u, fid) ==
    /\ user_data' = [user_data EXCEPT ![u] =
            Put(Put(@, "flow", "admin_confirm_delete"), "admin_delete_fid", fid)]
    /\ ev' = [E0("admin_delete", u) EXCEPT !.fid = fid, !.reply = "prompt_delete"]
    /\ StoreUnchanged

\* back_main and an unknown token only reply.
CbBackMain(u) == updates < MaxUpdates /\ UNCHANGED vars

CbUnknown(u) == updates < MaxUpdates /\ UNCHANGED vars

(***************************************************************************)
(* text_flow, one definition per branch.  text is the stripped message     *)
(* text; each branch is guarded by the flow tag the handler reads.         *)
(***************************************************************************)
TE(u, text) == [E0("text", u) EXCEPT !.text = text, !.flow = Flow(user_data[u])]

TextCreateName(u, text) ==
    /\ Flow(user_data[u]) = "create_name"
    /\ user_data' = [user_data EXCEPT ![u] =
            Put(Put(@, "new_family_name", text), "flow", "create_pass")]
    /\ ev' = [TE(u, text) EXCEPT !.reply = "prompt_pass"]
    /\ StoreUnchanged

\* create_family's two INSERTs.  fault: 0 none, 1 the INSERT INTO families
\* raised before it ran, 2 the INSERT INTO members raised.  A taken name
\* makes the first INSERT raise UniqueViolationError (after the id sequence
\* has advanced).
CreateInsertsFamily(name, fault) == fault # 1 /\ ~FamilyNameTaken(name)
CreateRaises(name, fault) == fault # 0 \/ FamilyNameTaken(name)

TextCreatePass(u, text, fault) ==
    LET name == user_data[u]["new_family_name"]
        e == TE(u, text)
    IN
    /\ Flow(user_data[u]) = "create_pass"
    /\ fault \in 0..2
    /\ fault = 2 => ~FamilyNameTaken(name)
    /\ nextFid <= MaxFid /\ nextMid <= MaxMid
    /\ families' = IF CreateInsertsFamily(name, fault)
                     THEN families \cup {NewFamily(name, PasswordHashOf(text))}
                     ELSE families
    /\ nextFid' = IF fault # 1 THEN nextFid + 1 ELSE nextFid
    /\ members' = IF ~CreateRaises(name, fault)
                    THEN members \cup {NewMember(nextFid, u, TRUE)}
                    ELSE members
    /\ nextMid' = IF ~CreateRaises(name, fault) THEN nextMid + 1 ELSE nextMid
    \* both paths end in context.user_data.clear()
    /\ user_data' = [user_data EXCEPT ![u] = EmptyDict]
    /\ ev' = IF CreateRaises(name, fault)
               THEN [e EXCEPT !.fault = fault,
                              !.reply = IF fault = 0 THEN "duplicate_name" ELSE "error"]
               ELSE [e EXCEPT !.fid = nextFid, !.reply = "created"]

TextJoinName(u, text) ==
    /\ Flow(user_data[u]) = "join_name"
    /\ user_data' = [user_data EXCEPT ![u] =
            Put(Put(@, "join_family_name", text), "flow", "join_pass")]
    /\ ev' = [TE(u, text) EXCEPT !.reply = "prompt_pass"]
    /\ StoreUnchanged

\* join_family.  fault: 0 none, 1 get_family_by_name, 2 the INSERT
TextJoinPass(u, text, fault) ==
    LET name == user_data[u]["join_family_name"]
        e == TE(u, text)
        found == get_family_by_name(name)
    IN
    /\ Flow(user_data[u]) = "join_pass"
    /\ fault \in 0..2
    /\ UNCHANGED <<families, nextFid>>
    /\ IF fault = 1
         THEN /\ ev' = Raised(e, 1)
              /\ UNCHANGED <<members, nextMid, user_data>>
         ELSE IF found = {}
         THEN /\ fault = 0
              /\ ev' = [e EXCEPT !.reply = "not_found"]
              /\ user_data' = [user_data EXCEPT ![u] = EmptyDict]
              /\ UNCHANGED <<members, nextMid>>
         ELSE \E fam \in found :
                IF ~PasswordOk(fam, text)
                  THEN /\ fault = 0
                       /\ ev' = [e EXCEPT !.fid = fam.id, !.reply = "bad_password"]
                       /\ user_data' = [user_data EXCEPT ![u] = EmptyDict]
                       /\ UNCHANGED <<members, nextMid>>
                  ELSE IF fault = 2
                  THEN /\ ev' = [Raised(e, 2) EXCEPT !.fid = fam.id]
                       /\ UNCHANGED <<members, nextMid, user_data>>
                  ELSE /\ nextMid <= MaxMid
                       /\ members' = InsertMemberOnConflictDoNothing(fam.id, u)
                       \* the id default is evaluated before the conflict is seen
                       /\ nextMid' = nextMid + 1
                       /\ user_data' = [user_data EXCEPT ![u] = EmptyDict]
                       /\ ev' = [e EXCEPT !.fid = fam.id, !.reply = "joined"]

\* fault: 0 none, 1 set_member_count
TextAdminSetCount(u, text, fault) ==
    LET d == user_data[u]
        e == TE(u, text)
    IN
    /\ Flow(d) = "admin_set_count"
    /\ fault \in 0..1
    /\ UNCHANGED <<families, nextFid, nextMid>>
    /\ IF ~IsIntText(text) \/ ParseInt(text) < 0
         THEN /\ fault = 0
              /\ ev' = [e EXCEPT !.reply = "bad_number"]
              /\ UNCHANGED <<members, user_data>>
         ELSE LET ee == [e EXCEPT !.fid = d["admin_set_fid"], !.tid = d["admin_set_target"],
                                  !.old = CountOf(d["admin_set_fid"], d["admin_set_target"])]
              IN
              IF fault = 1
                THEN /\ ev' = Raised(ee, 1)
                     /\ UNCHANGED <<members, user_data>>
                ELSE /\ members' = set_member_count(d["admin_set_target"], d["admin_set_fid"],
                                                    ParseInt(text))
                     /\ user_data' = [user_data EXCEPT ![u] =
                            Pop(@, {"admin_set_fid", "admin_set_target", "flow"})]
                     /\ ev' = [ee EXCEPT !.reply = "count_set"]

Confirmed(text) == text = DELETE

\* fault: 0 none, 1 delete_family
TextAdminConfirmDelete(u, text, fault) ==
    LET d == user_data[u]
        fid == d["admin_delete_fid"]
        e == [TE(u, text) EXCEPT !.fid = fid, !.old = SizeOf(fid)]
    IN
    /\ Flow(d) = "admin_confirm_delete"
    /\ fault \in 0..1
    /\ UNCHANGED <<nextFid, nextMid>>
    /\ IF Confirmed(text)
         THEN IF fault = 1
                THEN /\ ev' = Raised(e, 1)
                     /\ UNCHANGED <<families, members, user_data>>
                ELSE /\ families' = delete_family_rows(fid)
                     /\ members' = Cascade(fid)
                     /\ user_data' = [user_data EXCEPT ![u] =
                            Pop(@, {"admin_delete_fid", "flow"})]
                     /\ ev' = [e EXCEPT !.reply = "deleted"]
         ELSE /\ fault = 0
              /\ UNCHANGED <<families, members>>
              /\ user_data' = [user_data EXCEPT ![u] = Pop(@, {"admin_delete_fid", "flow"})]
              /\ ev' = [e EXCEPT !.reply = "not_confirmed"]

\* no flow: the fallback reply
TextFallback(u, text) ==
    /\ Flow(user_data[u]) = "none"
    /\ updates < MaxUpdates
    /\ UNCHANGED vars

\* The run's budget: u may send an update, and the update is counted.  The
\* branches that only reply leave the state as it is and are not counted.
Counted(u) ==
    /\ updates < MaxUpdates
    /\ updates' = updates + 1
    /\ u \in actors \/ Cardinality(actors) < MaxActors
    /\ actors' = actors \cup {u}
    /\ UNCHANGED <<inflight, expect, latest>>

Next ==
    \E u \in Users :
        \/ Start(u)
        \/ Counted(u) /\ CbCreateFamily(u)
        \/ Counted(u) /\ CbJoinFamily(u)
        \/ \E fid \in 0..MaxFid, sent \in BOOLEAN : Counted(u) /\ CbTrashOut(u, fid, sent)
        \/ Counted(u) /\ CbStats(u)
        \/ \E fid \in Fids : Counted(u) /\ CbAdmin(u, fid)
        \/ \E fid \in Fids : CbAdminList(u, fid)
        \/ \E fid \in Fids, tid \in Users : CbAdminMember(u, fid, tid)
        \/ \E fid \in Fids, tid \in Users : Counted(u) /\ CbAdminIncDec(u, "admin_inc", fid, tid)
        \/ \E fid \in Fids, tid \in Users : Counted(u) /\ CbAdminIncDec(u, "admin_dec", fid, tid)
        \/ \E fid \in Fids, tid \in Users : Counted(u) /\ CbAdminSet(u, fid, tid)
        \/ \E fid \in Fids, tid \in Users : Counted(u) /\ CbAdminRemove(u, fid, tid)
        \/ \E fid \in Fids, tid \in Users : Counted(u) /\ CbAdminToggleAdmin(u, fid, tid)
        \/ \E fid \in Fids : Counted(u) /\ CbAdminReset(u, fid)
        \/ \E fid \in Fids : Counted(u) /\ CbAdminDelete(u, fid)
        \/ CbBackMain(u)
        \/ CbUnknown(u)
        \/ \E raw \in NameTexts : Counted(u) /\ TextCreateName(u, Strip(raw))
        \/ \E raw \in PassTexts, fault \in 0..2 : Counted(u) /\ TextCreatePass(u, Strip(raw), fault)
        \/ \E raw \in NameTexts : Counted(u) /\ TextJoinName(u, Strip(raw))
        \/ \E raw \in PassTexts, fault \in 0..2 : Counted(u) /\ TextJoinPass(u, Strip(raw), fault)
        \/ \E raw \in CountTexts, fault \in 0..1 :
                Counted(u) /\ TextAdminSetCount(u, Strip(raw), fault)
        \/ \E raw \in ConfirmTexts, fault \in 0..1 :
                Counted(u) /\ TextAdminConfirmDelete(u, Strip(raw), fault)
        \/ \E raw \in OtherTexts : TextFallback(u, Strip(raw))

Spec == Init /\ [][Next]_vars

(***************************************************************************)
(* Statement-level runs.  Here the handlers of different users interleave  *)
(* between their store statements: one step is one statement of one        *)
(* handler together with the handler's work up to its next statement (or   *)
(* a whole handler that runs no statement).  inflight[u] holds where u's   *)
(* handler stands: the family its first statement returned (fam) and, for  *)
(* the observer, the caller's count in that family at that moment (seen).  *)
(* These runs take the handlers the interleavings in question are made of: *)
(* trash_out, admin_inc, the join flow and the deletion flow.              *)
(***************************************************************************)
IsIdle(u) == inflight[u].pc = "idle"

\* One step of u's handler; the observer's flow record is not kept here.
Step(u) ==
    /\ updates < MaxStmts
    /\ updates' = updates + 1
    /\ UNCHANGED <<actors, latest>>

\* The tally after one more increment has been accepted for the rows ids.
Accepted(ids) == [i \in DOMAIN expect |-> IF i \in ids THEN expect[i] + 1 ELSE expect[i]]

\* trash_out, statement 1: fam = await get_member_family(pool, user.id)
TrashLookup(u) ==
    /\ IsIdle(u)
    /\ UNCHANGED <<families, members, nextFid, nextMid, user_data>>
    /\ \E fam \in get_member_family(u) :
         IF fam.id = 0
           THEN /\ ev' = [E0("trash_out", u) EXCEPT !.reply = "not_in_family"]
                /\ UNCHANGED <<inflight, expect>>
           ELSE /\ CountsBelowMax({m \in members : m.telegram_id = u})
                /\ inflight' = [inflight EXCEPT ![u] =
                        [pc |-> "trash_update", fam |-> fam.id, seen |-> CountOf(fam.id, u)]]
                /\ expect' = Accepted({m.id : m \in {x \in members : x.telegram_id = u}})
                /\ ev' = [E0("trash_out", u) EXCEPT !.fam = fam.id, !.reply = "lookup"]

\* trash_out, statement 2: await add_trash(pool, user.id), then the reply
TrashUpdate(u) ==
    /\ inflight[u].pc = "trash_update"
    /\ UNCHANGED <<families, nextFid, nextMid, user_data, expect>>
    /\ members' = add_trash(u)
    /\ inflight' = [inflight EXCEPT ![u].pc = "trash_notify"]
    /\ ev' = [E0("trash_out", u) EXCEPT !.fam = inflight[u].fam, !.reply = "trash_ok",
                                        !.old = CountOf(inflight[u].fam, u)]

\* trash_out, statement 3: notify_least(pool, fam["id"], context)
TrashNotify(u, sent) ==
    /\ inflight[u].pc = "trash_notify"
    /\ UNCHANGED <<families, members, nextFid, nextMid, user_data, expect>>
    /\ inflight' = [inflight EXCEPT ![u] = Idle]
    /\ LET n == notify_least(members, inflight[u].fam, sent) IN
       ev' = [E0("trash_out", u) EXCEPT !.fam = inflight[u].fam, !.reply = "trash_ok",
                                       !.notify = n.to, !.delivered = n.delivered,
                                       !.fault = IF n.raised THEN 1 ELSE 0]

\* admin_inc|fid|tid: its one UPDATE
AdminIncStmt(u, fid, tid) ==
    /\ IsIdle(u)
    /\ CbAdminIncDec(u, "admin_inc", fid, tid)
    /\ expect' = Accepted({m.id : m \in MemberRow(fid, tid)})
    /\ UNCHANGED inflight

\* Handlers that run at most one statement: a step of their own.
Whole(u) == IsIdle(u) /\ UNCHANGED <<inflight, expect>>

\* (mutant) members.family_id without REFERENCES families(id)
ForeignKeyUnchecked(fid) == TRUE
\* members.family_id REFERENCES families(id): an INSERT of a member row
\* whose family row is gone raises ForeignKeyViolationError
ForeignKeyOk(fid) == \E f \in families : f.id = fid

\* join_pass, statement 1: join_family's get_family_by_name and the
\* password check
JoinLookup(u, text) ==
    LET e == TE(u, text)
        found == get_family_by_name(user_data[u]["join_family_name"])
    IN
    /\ IsIdle(u)
    /\ Flow(user_data[u]) = "join_pass"
    /\ UNCHANGED <<families, members, nextFid, nextMid, expect>>
    /\ IF found = {}
         THEN /\ ev' = [e EXCEPT !.reply = "not_found"]
              /\ user_data' = [user_data EXCEPT ![u] = EmptyDict]
              /\ UNCHANGED inflight
         ELSE \E fam \in found :
                IF ~PasswordOk(fam, text)
                  THEN /\ ev' = [e EXCEPT !.fid = fam.id, !.reply = "bad_password"]
                       /\ user_data' = [user_data EXCEPT ![u] = EmptyDict]
                       /\ UNCHANGED inflight
                  ELSE /\ ev' = [e EXCEPT !.fid = fam.id, !.reply = "lookup"]
                       /\ inflight' = [inflight EXCEPT ![u] =
                               [pc |-> "join_insert", fam |-> fam.id, seen |-> 0]]
                       /\ UNCHANGED user_data

\* join_pass, statement 2: join_family's INSERT INTO members, then
\* user_data.clear() and the reply.  fault 3: the INSERT raised
\* ForeignKeyViolationError.
JoinInsert(u) ==
    LET e == [TE(u, <<>>) EXCEPT !.fid = inflight[u].fam] IN
    /\ inflight[u].pc = "join_insert"
    /\ nextMid <= MaxMid
    /\ nextMid' = nextMid + 1
    /\ UNCHANGED <<families, nextFid, expect>>
    /\ inflight' = [inflight EXCEPT ![u] = Idle]
    /\ IF ForeignKeyOk(inflight[u].fam)
         THEN /\ members' = InsertMemberOnConflictDoNothing(inflight[u].fam, u)
              /\ user_data' = [user_data EXCEPT ![u] = EmptyDict]
              /\ ev' = [e EXCEPT !.reply = "joined"]
         ELSE /\ ev' = Raised(e, 3)
              /\ UNCHANGED <<members, user_data>>

NextI ==
    \E u \in Users :
        \/ Step(u) /\ TrashLookup(u)
        \/ Step(u) /\ TrashUpdate(u)
        \/ \E sent \in BOOLEAN : Step(u) /\ TrashNotify(u, sent)
        \/ \E fid \in Fids, tid \in Users : Step(u) /\ AdminIncStmt(u, fid, tid)
        \/ Step(u) /\ Whole(u) /\ CbJoinFamily(u)
        \/ \E raw \in NameTexts : Step(u) /\ Whole(u) /\ TextJoinName(u, Strip(raw))
        \/ \E raw \in PassTexts : Step(u) /\ JoinLookup(u, Strip(raw))
        \/ Step(u) /\ JoinInsert(u)
        \/ \E fid \in Fids : Step(u) /\ Whole(u) /\ CbAdminDelete(u, fid)
        \/ \E raw \in ConfirmTexts :
                Step(u) /\ Whole(u) /\ TextAdminConfirmDelete(u, Strip(raw), 0)

SpecI == Init /\ [][NextI]_vars

(***************************************************************************)
(* Runs of the conversation flows: the branches that read or write         *)
(* user_data (all other branches leave it alone), for up to MaxFlowSteps   *)
(* updates.  An observer keeps, per user, what the user's last entry into  *)
(* a flow captured: the flow entered and the token's integers or the name  *)
(* given.                                                                  *)
(***************************************************************************)
StepF(u) ==
    /\ updates < MaxFlowSteps
    /\ updates' = updates + 1
    /\ u \in actors \/ Cardinality(actors) < MaxActors
    /\ actors' = actors \cup {u}
    /\ UNCHANGED <<inflight, expect>>

Entered(u, flow, fid, tid, name) ==
    latest' = [latest EXCEPT ![u] = [flow |-> flow, fid |-> fid, tid |-> tid, name |-> name]]
FinalStep == UNCHANGED latest

NextF ==
    \E u \in Users :
        \/ StepF(u) /\ CbCreateFamily(u) /\ Entered(u, "create_name", 0, 0, <<>>)
        \/ StepF(u) /\ CbJoinFamily(u) /\ Entered(u, "join_name", 0, 0, <<>>)
        \/ \E fid \in Fids, tid \in Users :
                StepF(u) /\ CbAdminSet(u, fid, tid) /\ Entered(u, "admin_set_count", fid, tid, <<>>)
        \/ \E fid \in Fids :
                StepF(u) /\ CbAdminDelete(u, fid) /\ Entered(u, "admin_confirm_delete", fid, 0, <<>>)
        \/ \E raw \in NameTexts :
                StepF(u) /\ TextCreateName(u, Strip(raw))
                         /\ Entered(u, "create_pass", 0, 0, Strip(raw))
        \/ \E raw \in NameTexts :
                StepF(u) /\ TextJoinName(u, Strip(raw))
                         /\ Entered(u, "join_pass", 0, 0, Strip(raw))
        \/ \E raw \in PassTexts, fault \in 0..2 :
                StepF(u) /\ TextCreatePass(u, Strip(raw), fault) /\ FinalStep
        \/ \E raw \in PassTexts, fault \in 0..2 :
                StepF(u) /\ TextJoinPass(u, Strip(raw), fault) /\ FinalStep
        \/ \E raw \in CountTexts, fault \in 0..1 :
                StepF(u) /\ TextAdminSetCount(u, Strip(raw), fault) /\ FinalStep
        \/ \E raw \in ConfirmTexts, fault \in 0..1 :
                StepF(u) /\ TextAdminConfirmDelete(u, Strip(raw), fault) /\ FinalStep

SpecF == Init /\ [][NextF]_vars

(***************************************************************************)
(* Properties.  A step that handles a counted update is a CountedStep; ev' *)
(* then describes that update, the unprimed variables the state it found.  *)
(* In a state, ev describes the update that produced it.                   *)
(***************************************************************************)
CountedStep == updates' = updates + 1
IsText(e, flow) == e.op = "text" /\ e.flow = flow

AdminCallbacks == {"admin_inc", "admin_dec", "admin_remove", "admin_toggle_admin", "admin_reset"}
AdminMutation(e) ==
    \/ e.op \in AdminCallbacks
    \/ IsText(e, "admin_set_count")
    \/ IsText(e, "admin_confirm_delete")
FinalFlows == {"create_pass", "join_pass", "admin_set_count", "admin_confirm_delete"}

\* C1: an admin mutation (admin_inc, admin_dec, the set-count text,
\* admin_remove, admin_toggle_admin, admin_reset, the DELETE text) changes the
\* store only when the caller is, when the update is handled, a member with
\* is_admin = true of the family the token names; for any other caller the
\* store is unchanged.
C1_AdminMutationNeedsAdmin ==
    [][(CountedStep /\ AdminMutation(ev') /\ ~is_member_admin(ev'.fid, ev'.u))
          => UNCHANGED store]_vars

\* C2: when the store operation of a final flow step (create_pass, join_pass,
\* admin_set_count with a valid integer, admin_confirm_delete) raises, the
\* user's flow is none afterwards.
C2_NoUserLeftInFlow ==
    (ev.op = "text" /\ ev.flow \in FinalFlows /\ ev.fault # 0)
        => Flow(user_data[ev.u]) = "none"

\* C3: every member row has count >= 0 in every reachable state; admin_dec
\* on a row at count 0 leaves it at 0, and admin_inc / admin_dec otherwise
\* change the target row's count by exactly +1 / -1 and no other row.
CountsNonNegative == \A m \in members : m.count >= 0
IncDecExact ==
    (CountedStep /\ ev'.op \in {"admin_inc", "admin_dec"}) =>
        members' =
            {IF m.family_id = ev'.fid /\ m.telegram_id = ev'.tid
               THEN [m EXCEPT !.count =
                        IF ev'.op = "admin_inc" THEN m.count + 1
                        ELSE IF m.count = 0 THEN 0 ELSE m.count - 1]
               ELSE m : m \in members}
C3_CountsNeverNegative == []CountsNonNegative /\ [][IncDecExact]_vars
C3_DecrementAtZero ==
    ev.op = "admin_dec" /\ ev.old = 0 /\ CountOf(ev.fid, ev.tid) = 0

\* C4: join_family on an existing family with a password hash inserts a
\* member row only if the hash of the supplied password equals the stored
\* hash, and otherwise answers bad_password and leaves the members table as it
\* was; on an existing family without a hash it succeeds for every supplied
\* password, the empty one included.
JoinStep == CountedStep /\ IsText(ev', "join_pass") /\ ev'.fault = 0
C4_JoinChecksPassword ==
    [][JoinStep =>
         \A fam \in families :
            fam.name = user_data[ev'.u]["join_family_name"] =>
               IF fam.password_hash # NULL /\ fam.password_hash # {hash_password(ev'.text)}
                 THEN ev'.reply = "bad_password" /\ members' = members
                 ELSE /\ ev'.reply = "joined"
                      /\ \E m \in members' : m.family_id = fam.id /\ m.telegram_id = ev'.u]_vars
C4_JoinedWithPassword ==
    /\ IsText(ev, "join_pass") /\ ev.reply = "joined"
    /\ \E f \in families : f.id = ev.fid /\ f.password_hash = {hash_password(ev.text)}
    /\ \E m \in members : m.family_id = ev.fid /\ m.telegram_id = ev.u /\ m.id = nextMid - 1

\* C5: there is at most one member row per (family_id, telegram_id); a join
\* by a user who already is a member of the family adds no row, raises no
\* error and leaves the existing row's count and is_admin as they were.
UniqueMembership ==
    \A m1, m2 \in members :
        (m1.family_id = m2.family_id /\ m1.telegram_id = m2.telegram_id) => m1 = m2
RejoinChangesNothing ==
    (/\ JoinStep
     /\ ev'.reply \notin {"not_found", "bad_password"}
     /\ \E m \in members : m.family_id = ev'.fid /\ m.telegram_id = ev'.u)
        => members' = members /\ ev'.reply = "joined"
C5_OneRowPerMembership == []UniqueMembership /\ [][RejoinChangesNothing]_vars
C5_Rejoined ==
    /\ IsText(ev, "join_pass") /\ ev.reply = "joined"
    /\ \E m \in members : /\ m.family_id = ev.fid /\ m.telegram_id = ev.u
                          /\ m.id < nextMid - 1
                          /\ (m.count > 0 \/ m.is_admin)

\* C6: a create_pass step whose stored family name already exists fails
\* with DuplicateName (with another error when the INSERT itself could not
\* run), adds no family row and no member row, and leaves the flow at none.
C6_DuplicateNameCreatesNothing ==
    [][(/\ CountedStep
        /\ IsText(ev', "create_pass")
        /\ \E f \in families : f.name = user_data[ev'.u]["new_family_name"])
          => /\ ev'.reply = IF ev'.fault = 0 THEN "duplicate_name" ELSE "error"
             /\ families' = families
             /\ members' = members
             /\ Flow(user_data'[ev'.u]) = "none"]_vars
C6_DuplicateNameSeen ==
    IsText(ev, "create_pass") /\ ev.reply = "duplicate_name" /\ ev.fault = 0

\* C7: create_family inserts the family row and the creator's member row with
\* is_admin = true as one atomic step: once the family INSERT has run, the
\* family row is there exactly if the creator's admin row is; a fault on the
\* member INSERT leaves no family row behind.
C7_CreateIsAtomic ==
    (IsText(ev, "create_pass") /\ ev.fault # 1) =>
        ((\E f \in families : f.id = nextFid - 1)
           <=> (\E m \in members : /\ m.family_id = nextFid - 1
                                   /\ m.telegram_id = ev.u /\ m.is_admin))

\* C8: in flow admin_confirm_delete, the text DELETE deletes the captured
\* family and all its members and returns the flow to none; any other text
\* changes nothing in the store and also returns the flow to none.
C8_ConfirmDelete ==
    [][(CountedStep /\ IsText(ev', "admin_confirm_delete")) =>
          /\ Flow(user_data'[ev'.u]) = "none"
          /\ IF ev'.text = DELETE
               THEN /\ \A f \in families' : f.id # ev'.fid
                    /\ \A m \in members' : m.family_id # ev'.fid
               ELSE UNCHANGED store]_vars

\* C9: after delete_family(fid) no member row with that family_id remains,
\* get_family_by_name for the deleted family's name finds nothing, and the
\* rows of every other family are unchanged.
C9_DeleteRemovesFamilyOnly ==
    [][(CountedStep /\ IsText(ev', "admin_confirm_delete") /\ ev'.reply = "deleted") =>
          /\ \A m \in members' : m.family_id # ev'.fid
          /\ \A f \in families : f.id = ev'.fid => \A g \in families' : g.name # f.name
          /\ {f \in families' : f.id # ev'.fid} = {f \in families : f.id # ev'.fid}
          /\ \A f \in families' : f.id # ev'.fid
          /\ members' = {m \in members : m.family_id # ev'.fid}]_vars
C9_DeletedOneOfTwo ==
    /\ IsText(ev, "admin_confirm_delete") /\ ev.reply = "deleted"
    /\ ev.old >= 1
    /\ families # {}
    /\ members # {}

\* C10: a successful trash_out by user U raises by exactly 1 the count of
\* every member row whose telegram_id is U, in all families U belongs to, and
\* changes no other row; two trash_outs in a row raise U's count by exactly 2.
TrashOutExact ==
    (CountedStep /\ ev'.op = "trash_out" /\ ev'.reply = "trash_ok") =>
        /\ Cardinality(members') = Cardinality(members)
        /\ \A m \in members :
              IF m.telegram_id = ev'.u
                THEN [m EXCEPT !.count = m.count + 1] \in members'
                ELSE m \in members'
TwoTrashOuts ==
    (/\ CountedStep
     /\ ev.op = "trash_out" /\ ev.reply = "trash_ok"
     /\ ev'.op = "trash_out" /\ ev'.reply = "trash_ok"
     /\ ev'.u = ev.u)
        => \A m \in members' :
              (m.telegram_id = ev.u /\ m.family_id = ev.fam) => m.count = ev.old + 2
C10_TrashOutAddsOne == [][TrashOutExact /\ TwoTrashOuts]_vars
C10_TwiceInTwoFamilies ==
    /\ ev.op = "trash_out" /\ ev.reply = "trash_ok" /\ ev.old = 1
    /\ Cardinality({m \in members : m.telegram_id = ev.u}) = 2
    /\ \A m \in members : m.telegram_id = ev.u => m.count = 2
    /\ \E m \in members : m.telegram_id # ev.u /\ m.count = 0

\* C11: after a successful trash_out the reminder goes to the member of the
\* family the handler looked up for the caller whose count, read after the
\* increment, is minimal, and among the members at that count to the one
\* with the lowest id; on a family without member rows get_least_member
\* returns no row and notify_least addresses nobody.
TrashOk(e) == e.op = "trash_out" /\ e.reply = "trash_ok"
RowsOf(mems, fid) == {m \in mems : m.family_id = fid}
ReminderToLeast ==
    (CountedStep /\ TrashOk(ev')) =>
        \E m \in RowsOf(members', ev'.fam) :
            /\ ev'.notify = m.telegram_id
            /\ \A o \in RowsOf(members', ev'.fam) :
                  m.count < o.count \/ (m.count = o.count /\ m.id <= o.id)
NoReminderForEmptyFamily ==
    \A fid \in 0..MaxFid :
        RowsOf(members, fid) = {} =>
            get_least_member(members, fid) = {} /\ NotifyTarget(members, fid) = 0
C11_ReminderToLeastContributor == [][ReminderToLeast]_vars /\ []NoReminderForEmptyFamily
C11_TieGoesToLowestId ==
    /\ TrashOk(ev)
    /\ \E f \in families : RowsOf(members, f.id) = {}
    /\ \E m, o \in RowsOf(members, ev.fam) :
          /\ m.id < o.id /\ m.count = o.count
          /\ ev.notify = m.telegram_id
          /\ \A x \in RowsOf(members, ev.fam) : x.count >= m.count

\* C12: reset_counts(fid) sets the count of every member row of family fid
\* to 0 and changes nothing else: the rows of other families, every is_admin
\* flag, and the sets of member and family rows stay as they were.
C12_ResetOnlyThatFamily ==
    [][(CountedStep /\ ev'.op = "admin_reset") =>
          /\ families' = families
          /\ members' = {IF m.family_id = ev'.fid
                           THEN [id |-> m.id, family_id |-> m.family_id,
                                 telegram_id |-> m.telegram_id, username |-> m.username,
                                 count |-> 0, is_admin |-> m.is_admin]
                           ELSE m : m \in members}
          /\ \A m \in RowsOf(members', ev'.fid) : m.count = 0]_vars
C12_ResetBesideOtherFamily ==
    /\ ev.op = "admin_reset" /\ ev.old >= 1
    /\ \E m \in RowsOf(members, ev.fid) : m.is_admin
    /\ \E m \in RowsOf(members, ev.fid), o \in members :
          /\ o.family_id # ev.fid /\ o.telegram_id = m.telegram_id
          /\ o.count > 0 /\ m.count = 0

\* C13: get_family_stats(fid) returns exactly the member rows of family fid,
\* each once, by count descending and by username ascending among equal
\* counts; when an admin has just set B's count to 7 in a family whose only
\* other member A is at 0, the stats list is B:7 then A:0.
StatsListed ==
    (CountedStep /\ ev'.op = "stats" /\ ev'.reply = "stats") =>
        LET r == ev'.rows
            F == RowsOf(members, ev'.fam)
        IN  /\ Len(r) = Cardinality(F)
            /\ \A m \in F : \E i \in 1..Len(r) :
                  /\ r[i].id = m.id /\ r[i].telegram_id = m.telegram_id
                  /\ r[i].username = m.username /\ r[i].count = m.count
                  /\ r[i].is_admin = m.is_admin
            /\ \A i, j \in 1..Len(r) :
                  i < j => \/ r[i].count > r[j].count
                           \/ /\ r[i].count = r[j].count
                              /\ TextLeq(r[i].username, r[j].username)
SevenThenZero ==
    (/\ CountedStep
     /\ ev.reply = "count_set" /\ ev.text = <<"7">>
     /\ ev'.op = "stats" /\ ev'.reply = "stats" /\ ev'.fam = ev.fid
     /\ \E a, b \in RowsOf(members, ev.fid) :
           /\ RowsOf(members, ev.fid) = {a, b}
           /\ b.telegram_id = ev.tid /\ a.telegram_id # ev.tid /\ a.count = 0)
        => /\ Len(ev'.rows) = 2
           /\ ev'.rows[1].telegram_id = ev.tid /\ ev'.rows[1].count = 7
           /\ ev'.rows[2].telegram_id # ev.tid /\ ev'.rows[2].count = 0
C13_StatsOrder == [][StatsListed /\ SevenThenZero]_vars
C13_SevenBeforeZero ==
    /\ ev.op = "stats" /\ ev.reply = "stats"
    /\ Len(ev.rows) = 2
    /\ ev.rows[1].count = 7 /\ ~ev.rows[1].is_admin
    /\ ev.rows[2].count = 0 /\ ev.rows[2].is_admin /\ ev.rows[2].telegram_id = ev.u

\* C14: the token admin|F opens the admin panel only if the family looked up
\* for the caller is F and the caller's member row in F has is_admin = true;
\* in every other case access is denied; in no case does the store or the
\* caller's flow change.
C14_PanelOnlyForAdmins ==
    [][(CountedStep /\ ev'.op = "admin") =>
          /\ UNCHANGED <<families, members, user_data>>
          /\ ev'.reply \in {"panel", "no_access", "admin_only"}
          /\ ev'.reply = "panel" <=>
                /\ ev'.fam = ev'.fid
                /\ \E m \in members : /\ m.family_id = ev'.fid
                                      /\ m.telegram_id = ev'.u /\ m.is_admin
          /\ ev'.fam # 0 =>
                \E m \in members : m.family_id = ev'.fam /\ m.telegram_id = ev'.u]_vars
C14_MemberWithoutFlagDenied ==
    /\ ev.op = "admin" /\ ev.reply = "admin_only" /\ ev.fam = ev.fid
    /\ \E m \in members : m.family_id = ev.fid /\ m.telegram_id = ev.u /\ ~m.is_admin
    /\ \E m \in members : m.family_id = ev.fid /\ m.is_admin

\* C15: a trash_out token from a user without any member row, whatever
\* family id its payload carries, gets the not-in-family reply, changes no
\* row of the store and sends no reminder.
C15_TrashOutNeedsMembership ==
    [][(/\ CountedStep
        /\ ev'.op = "trash_out"
        /\ \A m \in members : m.telegram_id # ev'.u)
          => /\ ev'.reply = "not_in_family"
             /\ UNCHANGED <<families, members>>
             /\ ev'.notify = 0]_vars
C15_OutsiderNamesFamily ==
    /\ ev.op = "trash_out" /\ ev.reply = "not_in_family"
    /\ \E f \in families : f.id = ev.fid /\ RowsOf(members, f.id) # {}
    /\ \A m \in members : m.telegram_id # ev.u

\* C16: when the reminder after a trash_out cannot be delivered, the handler
\* still completes without an exception, the caller's incremented count
\* stays in the store and the caller has received the trash-out confirmation.
C16_DeliveryFailureSwallowed ==
    [][(/\ CountedStep
        /\ ev'.op = "trash_out"
        /\ ev'.notify # 0 /\ ~ev'.delivered)
          => /\ ev'.fault = 0
             /\ ev'.reply = "trash_ok"
             /\ \A m \in members :
                   m.telegram_id = ev'.u =>
                      \E n \in members' : /\ n.id = m.id /\ n.family_id = m.family_id
                                          /\ n.count = m.count + 1]_vars
C16_ReminderNotDelivered ==
    /\ TrashOk(ev) /\ ~ev.delivered /\ ev.fault = 0
    /\ ev.notify # 0 /\ ev.notify # ev.u
    /\ CountOf(ev.fam, ev.u) = ev.old + 1

\* C17: in flow admin_set_count a text that is a non-negative integer n sets
\* the count of the captured target's row in the captured family to n and
\* returns the flow to none; any other text changes no count and leaves the
\* flow, the captured family and the captured target as they were.
C17_SetCountStep ==
    [][(CountedStep /\ IsText(ev', "admin_set_count")) =>
          LET d == user_data[ev'.u] IN
          IF IsIntText(ev'.text) /\ ParseInt(ev'.text) >= 0
            THEN /\ Flow(user_data'[ev'.u]) = "none"
                 /\ \A m \in members :
                       (m.family_id = d["admin_set_fid"] /\ m.telegram_id = d["admin_set_target"])
                          => [m EXCEPT !.count = ParseInt(ev'.text)] \in members'
            ELSE /\ members' = members
                 /\ user_data'[ev'.u] = d]_vars

\* C18: with the handlers of different users interleaved between their
\* store statements, no counter update is lost: a member row's count is its
\* first count plus one for every trash_out accepted for its user and every
\* admin_inc run on the row (less the one increment of a trash_out whose
\* UPDATE is still to run), when no dec, set, reset or remove takes place.
C18_NoLostUpdate ==
    \A m \in members :
        m.count = expect[m.id]
                    - (IF inflight[m.telegram_id].pc = "trash_update" THEN 1 ELSE 0)
C18_IncBetweenLookupAndUpdate ==
    /\ TrashOk(ev)
    /\ inflight[ev.u].pc = "trash_notify"
    /\ ev.old = inflight[ev.u].seen + 1
    /\ CountOf(ev.fam, ev.u) = inflight[ev.u].seen + 2
    /\ \E m \in MemberRow(ev.fam, ev.u) : expect[m.id] = m.count

\* C19: every member row's family_id refers to an existing family row in
\* every reachable state, also when one user's join (family read, then member
\* INSERT) has another user's deletion of that family between its two
\* statements; that join leaves no member row of the deleted family.
MembersHaveFamilies == \A m \in members : \E f \in families : f.id = m.family_id
JoinAfterDeleteAddsNothing ==
    (/\ inflight[ev'.u].pc = "join_insert"
     /\ IsText(ev', "join_pass")
     /\ \A f \in families : f.id # inflight[ev'.u].fam)
        => /\ members' = members
           /\ \A m \in members' : m.family_id # inflight[ev'.u].fam
C19_MembersHaveFamilies == []MembersHaveFamilies /\ [][JoinAfterDeleteAddsNothing]_vars
C19_JoinLostItsFamily ==
    /\ IsText(ev, "join_pass") /\ ev.fault = 3
    /\ IsIdle(ev.u)
    /\ \A f \in families : f.id # ev.fid
    /\ \A m \in members : m.family_id # ev.fid

\* C20: a final-step text acts on what the user's most recent entry into the
\* flow captured, never on values an earlier, abandoned flow left behind:
\* the set-count text writes the row of the family and target of the latest
\* admin_set press, the confirmation text deletes the family of the latest
\* admin_delete press, and create_pass / join_pass act on the name given in
\* the latest create_name / join_name step.
FinalActsOnLatest ==
    (CountedStep /\ ev'.op = "text" /\ ev'.flow \in FinalFlows) =>
        LET l == latest[ev'.u] IN
        /\ l.flow = ev'.flow
        /\ ev'.reply = "count_set" =>
              /\ ev'.fid = l.fid /\ ev'.tid = l.tid
              /\ members' = {IF m.family_id = l.fid /\ m.telegram_id = l.tid
                               THEN [m EXCEPT !.count = ParseInt(ev'.text)] ELSE m
                                : m \in members}
        /\ IsText(ev', "admin_set_count") /\ ev'.fault = 1 =>
              ev'.fid = l.fid /\ ev'.tid = l.tid
        /\ IsText(ev', "admin_confirm_delete") =>
              /\ ev'.fid = l.fid
              /\ {f \in families' : f.id # l.fid} = {f \in families : f.id # l.fid}
        /\ ev'.reply = "deleted" => \A f \in families' : f.id # l.fid
        /\ ev'.reply = "created" =>
              \E f \in families' : f.id = nextFid /\ f.name = l.name
        /\ ev'.reply = "duplicate_name" => \E f \in families : f.name = l.name
        /\ ev'.reply = "joined" =>
              \E f \in families : f.id = ev'.fid /\ f.name = l.name
        /\ ev'.reply = "bad_password" =>
              \E f \in families : f.id = ev'.fid /\ f.name = l.name
        /\ ev'.reply = "not_found" => \A f \in families : f.name # l.name
C20_FinalStepUsesLatestEntry == [][FinalActsOnLatest]_vars
C20_StaleValuesLeftBehind ==
    /\ ev.op = "text" /\ ev.flow \in FinalFlows /\ ev.fault = 0
    /\ ev.reply \in {"count_set", "deleted", "created", "joined"}
    /\ latest[ev.u].flow = ev.flow
    /\ LET d == user_data[ev.u] IN
       \/ Has(d, "admin_set_fid") /\ ev.flow # "admin_set_count"
       \/ Has(d, "admin_delete_fid") /\ ev.flow # "admin_confirm_delete"
       \/ Has(d, "new_family_name") /\ ev.flow # "create_pass"
       \/ Has(d, "join_family_name") /\ ev.flow # "join_pass"

\* C21: in every reachable state every family that has at least one member
\* row has at least one member row with is_admin = true.
C21_EveryFamilyKeepsAnAdmin ==
    \A f \in families :
        RowsOf(members, f.id) # {} => \E m \in RowsOf(members, f.id) : m.is_admin

============================================================================
